---- MODULE Spec2Model ----
(***************************************************************************)
(* Model of panout's bundle reference resolver (src/resolver.rs) and the   *)
(* configuration lookups it uses (src/config.rs).                          *)
(*                                                                         *)
(* Strings are sequences of one-character strings, so that strip_prefix,   *)
(* splitn, format! and the byte-wise ordering of String are computed and   *)
(* not assumed.  The recursion of resolve_bundle_inner and                 *)
(* resolve_with_panes_inner is an explicit stack of frames; `?` unwinds it *)
(* one frame at a time.  A behaviour of Spec calls resolve_bundle and then *)
(* resolve_with_panes on one configuration and start path; the two calls   *)
(* share nothing but these arguments.  SpecParse calls parse_ref alone.    *)
(*                                                                         *)
(* Definitions named <operator>_<variation> are faulty variants of the     *)
(* operator that follows them; the claims are shown to tell them apart.    *)
(***************************************************************************)
EXTENDS Integers, Sequences, FiniteSets, TLC

\* ------------------------------------------------------------------ bounds
\* Largest pane index a bundle of the generated configurations may carry.
MaxPane == 1
\* Most command strings, over all its bundles, of a generated configuration.
MaxCmds == 3
\* Longest input string handed to parse_ref in SpecParse.
MaxStrLen == 4

\* ----------------------------------------------------------------- strings
\* Byte values of the characters used (String compares byte-wise).
CharCode(c) ==
    CASE c = " " -> 32
      [] c = "'" -> 39
      [] c = "*" -> 42
      [] c = "." -> 46
      [] c = "1" -> 49
      [] c = "2" -> 50
      [] c = "@" -> 64
      [] c = "B" -> 66
      [] c = "a" -> 97
      [] c = "b" -> 98
      [] c = "c" -> 99
      [] c = "d" -> 100
      [] c = "g" -> 103
      [] c = "h" -> 104
      [] c = "k" -> 107
      [] c = "o" -> 111
      [] c = "p" -> 112
      [] c = "q" -> 113
      [] c = "r" -> 114
      [] c = "u" -> 117
      [] c = "x" -> 120
      [] c = "y" -> 121
      [] c = "z" -> 122

\* Ord for str: lexicographic on bytes; a proper prefix is smaller.
RECURSIVE StrLess(_, _)
StrLess(s, t) ==
    IF t = <<>> THEN FALSE
    ELSE IF s = <<>> THEN TRUE
    ELSE IF CharCode(Head(s)) < CharCode(Head(t)) THEN TRUE
    ELSE IF CharCode(Head(s)) > CharCode(Head(t)) THEN FALSE
    ELSE StrLess(Tail(s), Tail(t))

\* Option<T>
None == [some |-> FALSE]
Some(v) == [some |-> TRUE, val |-> v]
unwrap_or(opt, d) == IF opt.some THEN opt.val ELSE d

\* str::strip_prefix(char)
strip_prefix(s, c) ==
    IF Len(s) > 0 /\ s[1] = c THEN Some(Tail(s)) ELSE None

\* Index of the first occurrence of c in s at or after i, 0 when there is none.
RECURSIVE FindFrom(_, _, _)
FindFrom(s, c, i) ==
    IF i > Len(s) THEN 0
    ELSE IF s[i] = c THEN i
    ELSE FindFrom(s, c, i + 1)

\* Index of the last occurrence of c in s at or before i, 0 when there is none
\* (used by the variant of splitn2 that cuts at the last c).
RECURSIVE FindBack(_, _, _)
FindBack(s, c, i) ==
    IF i < 1 THEN 0
    ELSE IF s[i] = c THEN i
    ELSE FindBack(s, c, i - 1)

SplitAt(s, k) ==
    IF k = 0 THEN << s >>
    ELSE << SubSeq(s, 1, k - 1), SubSeq(s, k + 1, Len(s)) >>

splitn2_last(s, c) == SplitAt(s, FindBack(s, c, Len(s)))

\* str::splitn(2, c).collect(): at most two parts, cut at the first c.
splitn2(s, c) == SplitAt(s, FindFrom(s, c, 1))

\* format!("{}.{}", group, name)
format_path(group, name) == group \o << "." >> \o name

\* format!("group '{}'", group)
format_group(group) ==
    << "g", "r", "o", "u", "p", " ", "'" >> \o group \o << "'" >>

\* --------------------------------------------------------------- parse_ref
Command(s) == [kind |-> "Command", cmd |-> s]
BundleRef(g, n) == [kind |-> "BundleRef", group |-> g, name |-> n]
GroupAll(g) == [kind |-> "GroupAll", group |-> g]

parse_ref_lastdot(s) ==
    LET rest == strip_prefix(s, "@")
    IN  IF rest.some
        THEN LET parts == splitn2_last(rest.val, ".")
             IN  IF Len(parts) = 2
                 THEN IF parts[2] = << "*" >>
                      THEN GroupAll(parts[1])
                      ELSE BundleRef(parts[1], parts[2])
                 ELSE Command(s)
        ELSE Command(s)

parse_ref(s) ==
    LET rest == strip_prefix(s, "@")
    IN  IF rest.some
        THEN LET parts == splitn2(rest.val, ".")
             IN  IF Len(parts) = 2
                 THEN IF parts[2] = << "*" >>
                      THEN GroupAll(parts[1])
                      ELSE BundleRef(parts[1], parts[2])
                 ELSE Command(s)
        ELSE Command(s)

\* ------------------------------------------------------------------ config
\* Cmd::to_vec
to_vec(cmd) == IF cmd.tag = "Single" THEN << cmd.s >> ELSE cmd.v

\* Config::get_group
get_group(cfg, group) ==
    IF group \in DOMAIN cfg THEN Some(cfg[group]) ELSE None

\* Config::get_bundle
get_bundle(cfg, path) ==
    LET parts == splitn2(path, ".")
    IN  IF Len(parts) # 2 THEN None
        ELSE LET g == get_group(cfg, parts[1])
             IN  IF g.some /\ parts[2] \in DOMAIN g.val
                 THEN Some(g.val[parts[2]])
                 ELSE None

\* PanoutError
BundleNotFound(s) == [kind |-> "BundleNotFound", msg |-> s]
CircularRef(s) == [kind |-> "CircularRef", msg |-> s]

\* Result<T>
Ok(v) == [kind |-> "Ok", val |-> v]
Err(e) == [kind |-> "Err", err |-> e]
NoRet == [kind |-> "none"]


\* ------------------------------------------------------------------- state
VARIABLES
    config,       \* Config.bundles: group -> (entry name -> BundleEntry)
    bundle_path,  \* the start path handed to the public resolver functions
    pc,           \* "idle": no resolver call is active; "running": one is
    mode,         \* "flat" (resolve_bundle) or "panes" (resolve_with_panes)
    stack,        \* active calls of the inner function, outermost first
    visited,      \* the HashSet<String> shared by the calls of one traversal
    pane_cmds,    \* the Vec<(u32, Vec<String>)> filled by resolve_with_panes
    err,          \* the error a `?` is propagating, None when there is none
    retFlat,      \* what resolve_bundle returned
    retPanes,     \* what resolve_with_panes returned
    parse_in,     \* SpecParse: the string handed to parse_ref
    parse_out,    \* SpecParse: what parse_ref returned
    env,          \* SpecLoader: the process environment and the file system
    retPath,      \* SpecLoader: what default_config_path returned
    cli,          \* SpecRun: the parsed command line (Cli::bundle, Cli::num)
    window,       \* SpecRun: the tmux window the process runs in
    run_pc,       \* SpecRun: the position of run_bundle
    pane_indices, \* SpecRun: the Vec<u32> returned by create_panes
    entry_k,      \* SpecRun: position of the outer loop in pane_commands
    cmd_k,        \* SpecRun: position of the inner loop in commands
    sent,         \* SpecRun: the (pane, command) pairs handed to send-keys
    retRun        \* SpecRun: what run_bundle returned

loaderVars == << env, retPath >>

runVars == << cli, window, run_pc, pane_indices, entry_k, cmd_k, sent, retRun >>

vars == << config, bundle_path, pc, mode, stack, visited, pane_cmds, err,
           retFlat, retPanes, parse_in, parse_out, loaderVars, runVars >>

resolverVars == << config, bundle_path, pc, mode, stack, visited, pane_cmds,
                   err, retFlat, retPanes >>

\* ---------------------------------------------------------- configurations
Multiple(v) == [tag |-> "Multiple", v |-> v]
Single(s) == [tag |-> "Single", s |-> s]

sG == << "g" >>
sH == << "h" >>
nA == << "a" >>
nB == << "b" >>
nC == << "c" >>
nD == << "d" >>
cX == << "x" >>
cY == << "y" >>

\* The text of a reference to one bundle, and of a group wildcard.
RefTo(g, n) == << "@" >> \o format_path(g, n)
WildTo(g) == << "@" >> \o g \o << ".", "*" >>

PaneOpts == { None } \cup { Some(p) : p \in 0 .. MaxPane }

\* The bundle slots of a table of command fields.
Slots(table) ==
    UNION { { << g, n >> : n \in DOMAIN table[g] } : g \in DOMAIN table }

\* The configuration with the command fields of table and the pane fields pa.
WithPanes(table, pa) ==
    [g \in DOMAIN table |->
       [n \in DOMAIN table[g] |->
          [cmd |-> table[g][n], pane |-> pa[<< g, n >>]]]]

\* Configurations taken from the documentation and the examples of the spec.
TDiamond ==
    sG :> ( nD :> Multiple(<< RefTo(sG, nA), RefTo(sG, nB) >>)
         @@ nA :> Multiple(<< RefTo(sG, nC) >>)
         @@ nB :> Multiple(<< RefTo(sG, nC) >>)
         @@ nC :> Multiple(<< cX, cY >>) )

TCycle3 ==
    sG :> ( nA :> Multiple(<< RefTo(sG, nB) >>)
         @@ nB :> Multiple(<< cY, RefTo(sG, nC) >>)
         @@ nC :> Multiple(<< cX, RefTo(sG, nA) >>) )

TWildOrder ==
    sG :> ( nB :> Single(<< "x", "b" >>)
         @@ << "a", "b" >> :> Single(<< "x", "a", "b" >>)
         @@ << "a", ".", "b" >> :> Single(<< "x", "a", ".", "b" >>)
         @@ nA :> Single(<< "x", "a" >>) )
    @@ sH :> ( nA :> Multiple(<< cX, WildTo(sG), RefTo(sG, << "a", ".", "b" >>) >>) )

TEmptyGroup ==
    sG :> ( nA :> Multiple(<< cX, WildTo(sH), cY >>)
         @@ nB :> Multiple(<< WildTo(sH) >>) )
    @@ sH :> << >>
    @@ << "h", ".", "a" >> :> ( nB :> Single(cY) )

TFaults ==
    sG :> ( nA :> Multiple(<< cX, RefTo(<< "q" >>, << "z" >>), RefTo(sG, nA) >>)
         @@ nB :> Multiple(<< WildTo(<< "k" >>), RefTo(<< "q" >>, << "z" >>) >>)
         @@ nC :> Multiple(<< RefTo(sG, nD), RefTo(sH, << >>), RefTo(sG, nB) >>)
         @@ nD :> Multiple(<< cY, << "@", "q" >>, << "@" >> >>) )
    @@ sH :> ( nA :> Multiple(<< WildTo(sG) >>) )

TChain ==
    sG :> ( nA :> Multiple(<< cX, RefTo(sG, nB), cX >>)
         @@ nB :> Multiple(<< RefTo(sG, nC) >>)
         @@ nC :> Multiple(<< cY, RefTo(sH, nA) >>) )
    @@ sH :> ( nA :> Multiple(<< << "1" >>, << "2" >> >>) )

ScenarioTables == { TDiamond, TCycle3, TWildOrder, TEmptyGroup, TFaults, TChain }

\* Every configuration of group g with entries among a and b whose command
\* lists hold at most MaxCmds strings in all, over the texts below.
RECURSIVE SeqsOfLen(_, _)
SeqsOfLen(S, n) ==
    IF n = 0 THEN { << >> }
    ELSE { Append(s, x) : s \in SeqsOfLen(S, n - 1), x \in S }

SmallTexts(n) ==
    { << "x" >> \o n, RefTo(sG, nA), RefTo(sG, nB), WildTo(sG), WildTo(sH) }

SmallEntries(n, maxLen) ==
    UNION { { Multiple(v) : v \in SeqsOfLen(SmallTexts(n), k) } : k \in 0 .. maxLen }

SmallTables ==
    { sG :> << >> }
    \cup UNION { { sG :> (n :> e) : e \in SmallEntries(n, MaxCmds) } : n \in { nA, nB } }
    \cup UNION { { sG :> (nA :> ea @@ nB :> eb) :
                     eb \in SmallEntries(nB, MaxCmds - Len(ea.v)) } :
                 ea \in SmallEntries(nA, MaxCmds) }

Tables == ScenarioTables \cup SmallTables

\* The bundle paths of a configuration.
PathsOf(cfg) ==
    { format_path(g, n) : << g, n >> \in Slots(cfg) }

\* Start paths: every bundle of the configuration, a bundle that is missing
\* from a group that may exist, and a path without '.'.
StartPaths(cfg) ==
    PathsOf(cfg) \cup { << "g", ".", "z" >>, << "q" >> }


\* ------------------------------------------------------------ the resolver
visited_insert_forgotten(v, path) == v

\* HashSet::insert, HashSet::remove
visited_insert(v, path) == v \cup { path }

visited_remove_all(v, path) == {}

visited_remove_forgotten(v, path) == v

visited_remove(v, path) == v \ { path }

extend_in_front(v, w) == w \o v

\* Vec::extend
extend(v, w) == v \o w

\* Vec::sort on the entry names: insertion into an ordered prefix.
RECURSIVE InsertSorted(_, _)
InsertSorted(s, x) ==
    IF s = << >> THEN << x >>
    ELSE IF StrLess(x, Head(s)) THEN << x >> \o s
    ELSE << Head(s) >> \o InsertSorted(Tail(s), x)

RECURSIVE SortFrom(_, _)
SortFrom(done, todo) ==
    IF todo = << >> THEN done
    ELSE SortFrom(InsertSorted(done, Head(todo)), Tail(todo))

sort_names_unsorted(names) == names

sort_names(names) == SortFrom(<< >>, names)

\* HashMap::keys(): the keys in an order the map chooses.
KeyOrders(m) ==
    { o \in [1 .. Cardinality(DOMAIN m) -> DOMAIN m] :
        \A i, j \in DOMAIN o : i # j => o[i] # o[j] }

\* bundle.pane.unwrap_or(default_pane)
target_pane_inherit_only(bundle, default_pane) == default_pane

target_pane_of(bundle, default_pane) == unwrap_or(bundle.pane, default_pane)

\* Position of the first entry of pane_cmds whose pane is p, 0 when none.
RECURSIVE FindPane(_, _, _)
FindPane(pcs, p, k) ==
    IF k > Len(pcs) THEN 0
    ELSE IF pcs[k][1] = p THEN k
    ELSE FindPane(pcs, p, k + 1)

merge_direct_overwrite(pcs, target_pane, direct_cmds) ==
    IF direct_cmds # << >>
    THEN LET k == FindPane(pcs, target_pane, 1)
         IN  IF k # 0
             THEN [pcs EXCEPT ![k] = << @[1], direct_cmds >>]
             ELSE Append(pcs, << target_pane, direct_cmds >>)
    ELSE pcs

merge_direct_always_push(pcs, target_pane, direct_cmds) ==
    IF direct_cmds # << >>
    THEN Append(pcs, << target_pane, direct_cmds >>)
    ELSE pcs

merge_direct_no_guard(pcs, target_pane, direct_cmds) ==
    LET k == FindPane(pcs, target_pane, 1)
    IN  IF k # 0
        THEN [pcs EXCEPT ![k] = << @[1], extend(@[2], direct_cmds) >>]
        ELSE Append(pcs, << target_pane, direct_cmds >>)

\* The merge of a bundle's direct commands into pane_cmds.
merge_direct(pcs, target_pane, direct_cmds) ==
    IF direct_cmds # << >>
    THEN LET k == FindPane(pcs, target_pane, 1)
         IN  IF k # 0
             THEN [pcs EXCEPT ![k] = << @[1], extend(@[2], direct_cmds) >>]
             ELSE Append(pcs, << target_pane, direct_cmds >>)
    ELSE pcs

\* The local state of one call of the inner function: acc is `result` in
\* resolve_bundle_inner and `direct_cmds` in resolve_with_panes_inner; names
\* is what is left of the wildcard loop the call is in.
NewFrame(m, path, bundle, default_pane) ==
    [path |-> path,
     cmds |-> to_vec(bundle.cmd),
     i |-> 1,
     acc |-> << >>,
     target_pane |-> IF m = "panes" THEN target_pane_of(bundle, default_pane) ELSE 0,
     in_group |-> FALSE,
     group |-> << >>,
     names |-> << >>]

Top == stack[Len(stack)]
Rest == SubSeq(stack, 1, Len(stack) - 1)

\* The public function of mode m returns r to its caller.
Finish(m, r) ==
    /\ pc' = "idle"
    /\ stack' = << >>
    /\ err' = None
    /\ IF m = "flat"
       THEN retFlat' = r /\ UNCHANGED retPanes
       ELSE retPanes' = r /\ UNCHANGED retFlat

Raise_and_go_on(m, e, stk) ==
    IF stk = << >>
    THEN Finish(m, Err(e))
    ELSE /\ pc' = "running"
         /\ stack' = stk
         /\ err' = None
         /\ UNCHANGED << retFlat, retPanes >>

Raise_unpropagated_in_panes(m, e, stk) ==
    IF stk = << >>
    THEN Finish(m, Err(e))
    ELSE /\ pc' = "running"
         /\ stack' = stk
         /\ err' = IF m = "panes" THEN None ELSE Some(e)
         /\ UNCHANGED << retFlat, retPanes >>

\* An error e leaves the call made from the frames stk: with no frame left it
\* is what the public function returns, otherwise `?` hands it to the caller.
Raise(m, e, stk) ==
    IF stk = << >>
    THEN Finish(m, Err(e))
    ELSE /\ pc' = "running"
         /\ stack' = stk
         /\ err' = Some(e)
         /\ UNCHANGED << retFlat, retPanes >>

circular_error_of_caller(path, stk) ==
    CircularRef(IF stk = << >> THEN path ELSE stk[Len(stk)].path)

\* The error of the cycle check.
circular_error(path, stk) == CircularRef(path)

missing_error_of_caller(path, stk) ==
    BundleNotFound(IF stk = << >> THEN path ELSE stk[Len(stk)].path)

\* The error of a failed lookup.
missing_error(path, stk) == BundleNotFound(path)

\* Entry of the inner function of mode m for path, called from the frames
\* stk with the visiting set v: the cycle check, the insert and the lookup.
Call(m, path, default_pane, stk, v) ==
    IF path \in v
    THEN /\ visited' = v
         /\ Raise(m, circular_error(path, stk), stk)
    ELSE LET bundle == get_bundle(config, path)
         IN  /\ visited' = visited_insert(v, path)
             /\ IF bundle.some
                THEN /\ pc' = "running"
                     /\ stack' = Append(stk, NewFrame(m, path, bundle.val, default_pane))
                     /\ err' = None
                     /\ UNCHANGED << retFlat, retPanes >>
                ELSE Raise(m, missing_error(path, stk), stk)

\* pub fn resolve_bundle
resolve_bundle ==
    /\ pc = "idle"
    /\ retFlat = NoRet
    /\ mode' = "flat"
    /\ Call("flat", bundle_path, 0, << >>, {})
    /\ UNCHANGED << config, bundle_path, pane_cmds, parse_in, parse_out, loaderVars, runVars >>

\* pub fn resolve_with_panes (called once resolve_bundle has returned)
resolve_with_panes ==
    /\ pc = "idle"
    /\ retFlat # NoRet
    /\ retPanes = NoRet
    /\ mode' = "panes"
    /\ pane_cmds' = << >>
    /\ Call("panes", bundle_path, 0, << >>, {})
    /\ UNCHANGED << config, bundle_path, parse_in, parse_out, loaderVars, runVars >>

\* The active call is at a command of its loop.
AtCommand ==
    /\ pc = "running"
    /\ ~err.some
    /\ stack # << >>
    /\ ~Top.in_group
    /\ Top.i <= Len(Top.cmds)

Parsed == parse_ref(Top.cmds[Top.i])

\* The caller's frame once the loop has moved past the current command.
Advanced == [stack EXCEPT ![Len(stack)].i = @ + 1]

StepCommand_merging_at_once ==
    /\ AtCommand
    /\ Parsed.kind = "Command"
    /\ stack' = IF mode = "panes" THEN Advanced
                ELSE [Advanced EXCEPT ![Len(stack)].acc = Append(@, Parsed.cmd)]
    /\ pane_cmds' = IF mode = "panes"
                    THEN merge_direct(pane_cmds, Top.target_pane, << Parsed.cmd >>)
                    ELSE pane_cmds
    /\ UNCHANGED << config, bundle_path, pc, mode, visited, err,
                    retFlat, retPanes, parse_in, parse_out, loaderVars, runVars >>

\* ResolvedRef::Command(cmd) => result.push(cmd) / direct_cmds.push(cmd)
StepCommand ==
    /\ AtCommand
    /\ Parsed.kind = "Command"
    /\ stack' = [Advanced EXCEPT ![Len(stack)].acc = Append(@, Parsed.cmd)]
    /\ UNCHANGED << config, bundle_path, pc, mode, visited, pane_cmds, err,
                    retFlat, retPanes, parse_in, parse_out, loaderVars, runVars >>

\* ResolvedRef::BundleRef { group, name } => the recursive call
StepBundleRef ==
    /\ AtCommand
    /\ Parsed.kind = "BundleRef"
    /\ Call(mode, format_path(Parsed.group, Parsed.name), Top.target_pane,
            Advanced, visited)
    /\ UNCHANGED << config, bundle_path, mode, pane_cmds, parse_in, parse_out, loaderVars, runVars >>

StepGroupAll_skipping_self ==
    /\ AtCommand
    /\ Parsed.kind = "GroupAll"
    /\ LET group_entries == get_group(config, Parsed.group)
       IN  IF ~group_entries.some
           THEN /\ Raise(mode, BundleNotFound(format_group(Parsed.group)), stack)
                /\ UNCHANGED visited
           ELSE \E order \in KeyOrders(group_entries.val) :
                  LET names == SelectSeq(sort_names(order),
                                         LAMBDA n : format_path(Parsed.group, n) # Top.path)
                  IN  /\ stack' = IF names = << >>
                                  THEN Advanced
                                  ELSE [stack EXCEPT ![Len(stack)].in_group = TRUE,
                                                     ![Len(stack)].group = Parsed.group,
                                                     ![Len(stack)].names = names]
                      /\ UNCHANGED << pc, visited, err, retFlat, retPanes >>
    /\ UNCHANGED << config, bundle_path, mode, pane_cmds, parse_in, parse_out,
                    loaderVars, runVars >>

\* ResolvedRef::GroupAll { group } => get_group, keys, sort
StepGroupAll ==
    /\ AtCommand
    /\ Parsed.kind = "GroupAll"
    /\ LET group_entries == get_group(config, Parsed.group)
       IN  IF ~group_entries.some
           THEN /\ Raise(mode, BundleNotFound(format_group(Parsed.group)), stack)
                /\ UNCHANGED visited
           ELSE \E order \in KeyOrders(group_entries.val) :
                  LET names == sort_names(order)
                  IN  /\ stack' = IF names = << >>
                                  THEN Advanced
                                  ELSE [stack EXCEPT ![Len(stack)].in_group = TRUE,
                                                     ![Len(stack)].group = Parsed.group,
                                                     ![Len(stack)].names = names]
                      /\ UNCHANGED << pc, visited, err, retFlat, retPanes >>
    /\ UNCHANGED << config, bundle_path, mode, pane_cmds, parse_in, parse_out, loaderVars, runVars >>

\* The caller's frame once the wildcard loop has taken its next name.
NextMember ==
    IF Len(Top.names) = 1
    THEN [Advanced EXCEPT ![Len(stack)].in_group = FALSE,
                          ![Len(stack)].group = << >>,
                          ![Len(stack)].names = << >>]
    ELSE [stack EXCEPT ![Len(stack)].names = Tail(@)]

\* for name in names { ... the recursive call ... }
StepGroupMember ==
    /\ pc = "running"
    /\ ~err.some
    /\ stack # << >>
    /\ Top.in_group
    /\ Call(mode, format_path(Top.group, Head(Top.names)), Top.target_pane,
            NextMember, visited)
    /\ UNCHANGED << config, bundle_path, mode, pane_cmds, parse_in, parse_out, loaderVars, runVars >>

\* The active call has run its loop to the end.
AtEnd ==
    /\ pc = "running"
    /\ ~err.some
    /\ stack # << >>
    /\ ~Top.in_group
    /\ Top.i > Len(Top.cmds)

\* resolve_bundle_inner: visited.remove(bundle_path); Ok(result), and the
\* caller's result.extend(sub_cmds).
ReturnFlat ==
    /\ AtEnd
    /\ mode = "flat"
    /\ visited' = visited_remove(visited, Top.path)
    /\ IF Rest = << >>
       THEN Finish("flat", Ok(Top.acc))
       ELSE /\ stack' = [Rest EXCEPT ![Len(Rest)].acc = extend(@, Top.acc)]
            /\ UNCHANGED << pc, err, retFlat, retPanes >>
    /\ UNCHANGED << config, bundle_path, mode, pane_cmds, parse_in, parse_out, loaderVars, runVars >>

\* resolve_with_panes_inner: the merge of direct_cmds, visited.remove, Ok(()),
\* and for the outermost call Ok(pane_cmds) of resolve_with_panes.
ReturnPanes ==
    /\ AtEnd
    /\ mode = "panes"
    /\ pane_cmds' = merge_direct(pane_cmds, Top.target_pane, Top.acc)
    /\ visited' = visited_remove(visited, Top.path)
    /\ IF Rest = << >>
       THEN Finish("panes", Ok(pane_cmds'))
       ELSE /\ stack' = Rest
            /\ UNCHANGED << pc, err, retFlat, retPanes >>
    /\ UNCHANGED << config, bundle_path, mode, parse_in, parse_out, loaderVars, runVars >>

Propagate_releasing ==
    /\ pc = "running"
    /\ err.some
    /\ stack # << >>
    /\ visited' = visited_remove(visited, Top.path)
    /\ Raise(mode, err.val, Rest)
    /\ UNCHANGED << config, bundle_path, mode, pane_cmds,
                    parse_in, parse_out, loaderVars, runVars >>

\* `?`: the call that received an error returns it to its own caller.
Propagate ==
    /\ pc = "running"
    /\ err.some
    /\ stack # << >>
    /\ Raise(mode, err.val, Rest)
    /\ UNCHANGED << config, bundle_path, mode, visited, pane_cmds,
                    parse_in, parse_out, loaderVars, runVars >>

Init ==
    /\ \E table \in Tables :
         \E pa \in [Slots(table) -> PaneOpts] : config = WithPanes(table, pa)
    /\ bundle_path \in StartPaths(config)
    /\ pc = "idle"
    /\ mode = "none"
    /\ stack = << >>
    /\ visited = {}
    /\ pane_cmds = << >>
    /\ err = None
    /\ retFlat = NoRet
    /\ retPanes = NoRet
    /\ parse_in = << >>
    /\ parse_out = NoRet
    /\ env = << >>
    /\ retPath = NoRet
    /\ cli = << >>
    /\ window = << >>
    /\ run_pc = "idle"
    /\ pane_indices = << >>
    /\ entry_k = 0
    /\ cmd_k = 0
    /\ sent = << >>
    /\ retRun = NoRet

Next ==
    \/ resolve_bundle
    \/ resolve_with_panes
    \/ StepCommand
    \/ StepBundleRef
    \/ StepGroupAll
    \/ StepGroupMember
    \/ ReturnFlat
    \/ ReturnPanes
    \/ Propagate

Spec == Init /\ [][Next]_vars

\* A step inside a call of a public function.  The resolver is sequential
\* code without waiting: a call that can take a step takes it.
Step ==
    \/ StepCommand
    \/ StepBundleRef
    \/ StepGroupAll
    \/ StepGroupMember
    \/ ReturnFlat
    \/ ReturnPanes
    \/ Propagate

\* Configurations whose bundles all carry the same pane field.
InitUniformPanes ==
    /\ Init
    /\ \E p \in PaneOpts :
         \A g \in DOMAIN config : \A n \in DOMAIN config[g] : config[g][n].pane = p

\* Weak fairness of Step, WF_vars(Step), with ENABLED <<Step>>_vars written
\* as the condition it amounts to: a step is possible exactly while a call
\* is active, and every step changes the state.
StepFairness == []<>(pc # "running") \/ []<><<Step>>_vars

SpecFair == InitUniformPanes /\ [][Next]_vars /\ StepFairness


\* ------------------------------------------------- parse_ref on its own
\* The characters of the strings handed to parse_ref.
ParseChars == { "@", ".", "*", "a" }

ParseInputs == UNION { SeqsOfLen(ParseChars, k) : k \in 0 .. MaxStrLen }

InitParse ==
    /\ parse_in \in ParseInputs
    /\ parse_out = NoRet
    /\ config = << >>
    /\ bundle_path = << >>
    /\ pc = "idle"
    /\ mode = "none"
    /\ stack = << >>
    /\ visited = {}
    /\ pane_cmds = << >>
    /\ err = None
    /\ retFlat = NoRet
    /\ retPanes = NoRet
    /\ env = << >>
    /\ retPath = NoRet
    /\ cli = << >>
    /\ window = << >>
    /\ run_pc = "idle"
    /\ pane_indices = << >>
    /\ entry_k = 0
    /\ cmd_k = 0
    /\ sent = << >>
    /\ retRun = NoRet

\* A call of parse_ref on parse_in.
ParseCall ==
    /\ parse_out = NoRet
    /\ parse_out' = parse_ref(parse_in)
    /\ UNCHANGED << parse_in, resolverVars, loaderVars, runVars >>

NextParse == ParseCall

SpecParse == InitParse /\ [][NextParse]_vars

\* ------------------------------------------- default_config_path (loader)
\* A path is the sequence of its components.
\* PathBuf::join
join(path, component) == Append(path, component)

\* PanoutError::NoConfigDir
NoConfigDir == [kind |-> "NoConfigDir"]

\* The values of the environment: the directory XDG_CONFIG_HOME names, the
\* home directory, and the platform (dirs::config_dir differs between them).
XdgDirs == { << "x" >>, << "h", ".config" >> }
HomeDirs == { << "h" >> }
Platforms == { "linux", "macos" }

\* path.join("panout").join("config.toml")
config_file_in(dir) == join(join(dir, "panout"), "config.toml")

\* The config files that may exist.
CandidateFiles ==
    { config_file_in(<< "x" >>),
      config_file_in(<< "h", ".config" >>),
      config_file_in(<< "h", "Library", "Application Support" >>) }

Environments ==
    [platform : Platforms,
     xdg : { None } \cup { Some(d) : d \in XdgDirs },
     home : { None } \cup { Some(d) : d \in HomeDirs },
     files : SUBSET CandidateFiles]

\* std::env::var("XDG_CONFIG_HOME")
env_var_xdg(e) == e.xdg

\* dirs::home_dir()
home_dir(e) == e.home

\* dirs::config_dir(): $XDG_CONFIG_HOME or $HOME/.config on Linux,
\* $HOME/Library/Application Support on macOS.
config_dir(e) ==
    IF e.platform = "linux"
    THEN IF e.xdg.some THEN e.xdg
         ELSE IF e.home.some THEN Some(join(e.home.val, ".config")) ELSE None
    ELSE IF e.home.some
         THEN Some(join(join(e.home.val, "Library"), "Application Support"))
         ELSE None

\* Path::exists
exists(e, path) == path \in e.files

\* pub fn default_config_path
default_config_path(e) ==
    LET xdg == env_var_xdg(e)
        home == home_dir(e)
        home_path == config_file_in(join(home.val, ".config"))
    IN  IF xdg.some /\ exists(e, config_file_in(xdg.val))
        THEN Ok(config_file_in(xdg.val))
        ELSE IF home.some /\ exists(e, home_path)
        THEN Ok(home_path)
        ELSE IF ~config_dir(e).some
        THEN Err(NoConfigDir)
        ELSE IF home.some
        THEN Ok(home_path)
        ELSE Err(NoConfigDir)

\* Everything but the loader's variables, at rest.
OthersAtRest ==
    /\ config = << >>
    /\ bundle_path = << >>
    /\ pc = "idle"
    /\ mode = "none"
    /\ stack = << >>
    /\ visited = {}
    /\ pane_cmds = << >>
    /\ err = None
    /\ retFlat = NoRet
    /\ retPanes = NoRet
    /\ parse_in = << >>
    /\ parse_out = NoRet
    /\ cli = << >>
    /\ window = << >>
    /\ run_pc = "idle"
    /\ pane_indices = << >>
    /\ entry_k = 0
    /\ cmd_k = 0
    /\ sent = << >>
    /\ retRun = NoRet

InitLoader ==
    /\ env \in Environments
    /\ retPath = NoRet
    /\ OthersAtRest

\* A call of default_config_path in the environment env.
LoaderCall ==
    /\ retPath = NoRet
    /\ retPath' = default_config_path(env)
    /\ UNCHANGED << env, resolverVars, parse_in, parse_out, runVars >>

NextLoader == LoaderCall

SpecLoader == InitLoader /\ [][NextLoader]_vars

\* ------------------------------------------------------ run_bundle (main)
\* PanoutError::NotInTmux, PanoutError::TmuxError
NotInTmux == [kind |-> "NotInTmux"]
TmuxError(what) == [kind |-> "TmuxError", msg |-> what]

\* What resolve_with_panes may have returned to run_bundle: an error, or
\* entries of different panes up to MaxPane, none of them empty, with at
\* most MaxCmds commands in all.
RunCommandLists(n) == UNION { SeqsOfLen({ cX, cY }, k) : k \in 1 .. n }

RECURSIVE PaneResults(_, _)
PaneResults(panes, n) ==
    { << >> }
    \cup UNION { { << << p, l >> >> \o rest :
                     rest \in PaneResults(panes \ { p }, n - Len(l)) } :
                 p \in panes, l \in RunCommandLists(n) }

ResolveOutcomes ==
    { Ok(r) : r \in PaneResults(0 .. MaxPane, MaxCmds) }
    \cup { Err(BundleNotFound(<< "q", ".", "z" >>)) }

\* Cli::bundle and Cli::num
CliOptions ==
    [bundle : { None, Some(<< "g", ".", "a" >>) },
     num : { None, Some(0), Some(2) }]

\* The window run_bundle starts in: inside tmux or not, and the indices of
\* its panes, which start at pane-base-index (0 or 1).
WindowPanes(base, count) == [k \in 1 .. count |-> base + k - 1]

Windows ==
    { [in_tmux |-> t, panes |-> WindowPanes(b, c)] :
        t \in BOOLEAN, b \in { 0, 1 }, c \in { 1, 2 } }

\* tmux split-window: one more pane, with the next index.
split_window(w) == [w EXCEPT !.panes = Append(@, @[Len(@)] + 1)]

RECURSIVE Splits(_, _)
Splits(w, n) == IF n = 0 THEN w ELSE Splits(split_window(w), n - 1)

\* `for _ in 1..num`: the number of split-window calls of create_panes.
splits_of(num) == IF num > 1 THEN num - 1 ELSE 0

pane_indices_get_by_number(v, i) == IF i < Len(v) THEN Some(i) ELSE None

\* pane_indices.get(i as usize)
pane_indices_get(v, i) == IF i < Len(v) THEN Some(v[i + 1]) ELSE None

\* "no bundle specified"
no_bundle_specified ==
    << "n", "o", " ", "b", "u", "n", "d", "l", "e", " ",
       "s", "p", "e", "c", "i", "f", "i", "e", "d" >>

\* let pane_commands = resolver::resolve_with_panes(config, bundle_name)?
pane_commands == retPanes.val

\* run_bundle returns r.
RunReturn(r) ==
    /\ retRun' = r
    /\ run_pc' = "done"

\* run_bundle up to create_panes: the bundle name, num_panes, the resolver.
run_bundle ==
    /\ run_pc = "idle"
    /\ retRun = NoRet
    /\ IF ~cli.bundle.some
       THEN RunReturn(Err(BundleNotFound(no_bundle_specified)))
       ELSE IF retPanes.kind = "Err"
       THEN RunReturn(retPanes)
       ELSE retRun' = retRun /\ run_pc' = "create"
    /\ UNCHANGED << resolverVars, parse_in, parse_out, loaderVars,
                    cli, window, pane_indices, entry_k, cmd_k, sent >>

\* tmux::create_panes(num_panes, layout)?
create_panes ==
    /\ run_pc = "create"
    /\ LET num_panes == unwrap_or(cli.num, 1)
       IN  IF ~window.in_tmux
           THEN /\ RunReturn(Err(NotInTmux))
                /\ UNCHANGED << window, pane_indices, entry_k, cmd_k >>
           ELSE \/ /\ window' = Splits(window, splits_of(num_panes))
                   /\ pane_indices' = window'.panes
                   /\ run_pc' = "loop"
                   /\ entry_k' = 1
                   /\ cmd_k' = 1
                   /\ UNCHANGED retRun
                \/ \E made \in 0 .. splits_of(num_panes) :
                      /\ window' = Splits(window, made)
                      /\ RunReturn(Err(TmuxError("create_panes")))
                      /\ UNCHANGED << pane_indices, entry_k, cmd_k >>
    /\ UNCHANGED << resolverVars, parse_in, parse_out, loaderVars, cli, sent >>

\* The loop of run_bundle is at an entry of pane_commands.
AtEntry == run_pc = "loop" /\ entry_k <= Len(pane_commands)

\* if let Some(&actual_pane) = pane_indices.get(i as usize)
actual_pane == pane_indices_get(pane_indices, pane_commands[entry_k][1])

\* tmux::send_keys(actual_pane, &cmd)?
send_keys ==
    /\ AtEntry
    /\ actual_pane.some
    /\ cmd_k <= Len(pane_commands[entry_k][2])
    /\ \/ /\ sent' = Append(sent, << actual_pane.val, pane_commands[entry_k][2][cmd_k] >>)
          /\ cmd_k' = cmd_k + 1
          /\ UNCHANGED << run_pc, retRun >>
       \/ /\ RunReturn(Err(TmuxError("send_keys")))
          /\ UNCHANGED << sent, cmd_k >>
    /\ UNCHANGED << resolverVars, parse_in, parse_out, loaderVars,
                    cli, window, pane_indices, entry_k >>

\* The outer loop moves on: the entry has no pane, or its commands are sent.
next_entry ==
    /\ AtEntry
    /\ ~actual_pane.some \/ cmd_k > Len(pane_commands[entry_k][2])
    /\ entry_k' = entry_k + 1
    /\ cmd_k' = 1
    /\ UNCHANGED << resolverVars, parse_in, parse_out, loaderVars,
                    cli, window, run_pc, pane_indices, sent, retRun >>

\* Ok(()) after the loop.
run_bundle_end ==
    /\ run_pc = "loop"
    /\ entry_k > Len(pane_commands)
    /\ RunReturn(Ok(<< >>))
    /\ UNCHANGED << resolverVars, parse_in, parse_out, loaderVars,
                    cli, window, pane_indices, entry_k, cmd_k, sent >>

InitRun ==
    /\ retPanes \in ResolveOutcomes
    /\ cli \in CliOptions
    /\ window \in Windows
    /\ run_pc = "idle"
    /\ pane_indices = << >>
    /\ entry_k = 0
    /\ cmd_k = 0
    /\ sent = << >>
    /\ retRun = NoRet
    /\ config = << >>
    /\ bundle_path = << >>
    /\ pc = "idle"
    /\ mode = "panes"
    /\ stack = << >>
    /\ visited = {}
    /\ pane_cmds = << >>
    /\ err = None
    /\ retFlat = NoRet
    /\ parse_in = << >>
    /\ parse_out = NoRet
    /\ env = << >>
    /\ retPath = NoRet

NextRun ==
    \/ run_bundle
    \/ create_panes
    \/ send_keys
    \/ next_entry
    \/ run_bundle_end

SpecRun == InitRun /\ [][NextRun]_vars

\* ================================================================== claims

\* ------------------------------------------------------- shared vocabulary
\* What the public function of mode m has returned.
RetOf(m) == IF m = "flat" THEN retFlat ELSE retPanes

\* After the step, the traversal is failing with error e (the error is on its
\* way up) or has failed with it (the public function returned it).
FailsWith(e) ==
    \/ pc' = "running" /\ err' = Some(e)
    \/ pc' = "idle" /\ mode' = "flat" /\ retFlat' = Err(e)
    \/ pc' = "idle" /\ mode' = "panes" /\ retPanes' = Err(e)

\* The paths of the calls on the active call stack.
StackPaths == { stack[k].path : k \in DOMAIN stack }

\* The next step enters the inner function: from the public function, for a
\* @g.n reference, or for the next member of a wildcard.
Calling ==
    \/ pc = "idle" /\ retPanes = NoRet
    \/ AtCommand /\ Parsed.kind = "BundleRef"
    \/ pc = "running" /\ ~err.some /\ stack # << >> /\ Top.in_group

\* The path that call is made for.
CallTarget ==
    IF pc = "idle" THEN bundle_path
    ELSE IF Top.in_group
    THEN Top.group \o << "." >> \o Head(Top.names)
    ELSE Parsed.group \o << "." >> \o Parsed.name

\* The table of command fields of the configuration.
TableOf(cfg) == [g \in DOMAIN cfg |-> [n \in DOMAIN cfg[g] |-> cfg[g][n].cmd]]

\* ---------------------------------------------------------------------- C1
\* C1: in both modes, a call made for a path that is still on the active
\* call stack makes the traversal fail with CircularRef of exactly that path,
\* and a CircularRef error on its way up is what the public function returns.
C1_CycleDetected ==
    [][ /\ (Calling /\ CallTarget \in StackPaths)
            => FailsWith(CircularRef(CallTarget))
        /\ (err.some /\ err.val.kind = "CircularRef") => FailsWith(err.val)
      ]_vars

\* Both modes returned CircularRef for a path other than the start path (a
\* cycle that does not close at the start bundle).
C1_Witness ==
    /\ retPanes.kind = "Err"
    /\ retPanes.err.kind = "CircularRef"
    /\ retPanes.err.msg # bundle_path
    /\ retFlat = retPanes

\* ---------------------------------------------------------------------- C2
\* C2: a call made for a path that is not on the active call stack is never
\* answered with CircularRef, and when the bundle exists it is expanded (a new
\* call for it becomes the active one), however often the path has been
\* expanded before; on the diamond D = [@A, @B], A = [@C], B = [@C],
\* C = [x, y], resolve_bundle(D) returns C's commands twice.
C2_NoFalseCycle ==
    [][ /\ (Calling /\ CallTarget \notin StackPaths)
            => /\ ~FailsWith(CircularRef(CallTarget))
               /\ get_bundle(config, CallTarget).some
                    => /\ Len(stack') = Len(stack) + 1
                       /\ stack'[Len(stack')].path = CallTarget
                       /\ stack'[Len(stack')].i = 1
        /\ (retFlat' # NoRet /\ bundle_path = << "g", ".", "d" >>
              /\ TableOf(config) = TDiamond)
            => retFlat' = Ok(<< cX, cY, cX, cY >>)
      ]_vars

\* The second expansion of a bundle is under way: in flat mode the call for
\* g.c is active below g.b while the result of g.d already holds commands.
C2_Witness ==
    /\ mode = "flat"
    /\ Len(stack) = 3
    /\ Top.path = << "g", ".", "c" >>
    /\ stack[2].path = << "g", ".", "b" >>
    /\ stack[1].acc = << cX, cY >>

\* ---------------------------------------------------------------------- C3
\* The names of a group in lexicographic order: first the name that is
\* smaller than every other one, then the remaining names in that order.
RECURSIVE LexOrder(_)
LexOrder(names) ==
    IF names = {} THEN << >>
    ELSE LET least == CHOOSE x \in names : \A y \in names \ { x } : StrLess(x, y)
         IN  << least >> \o LexOrder(names \ { least })

\* The in-order expansion of a path, of a command list and of the members of
\* a group; depth bounds the nesting, which on a configuration without a
\* cycle stays below the number of bundles.
RECURSIVE ExpandPath(_, _, _), ExpandCmds(_, _, _), ExpandNames(_, _, _, _)
ExpandPath(cfg, path, depth) ==
    LET bundle == get_bundle(cfg, path)
    IN  IF depth = 0 \/ ~bundle.some THEN << >>
        ELSE ExpandCmds(cfg, to_vec(bundle.val.cmd), depth - 1)

ExpandCmds(cfg, cmds, depth) ==
    IF cmds = << >> THEN << >>
    ELSE LET r == parse_ref(Head(cmds))
             here == CASE r.kind = "Command" -> << r.cmd >>
                       [] r.kind = "BundleRef" ->
                            ExpandPath(cfg, r.group \o << "." >> \o r.name, depth)
                       [] r.kind = "GroupAll" ->
                            IF r.group \in DOMAIN cfg
                            THEN ExpandNames(cfg, r.group,
                                             LexOrder(DOMAIN cfg[r.group]), depth)
                            ELSE << >>
         IN  here \o ExpandCmds(cfg, Tail(cmds), depth)

ExpandNames(cfg, group, names, depth) ==
    IF names = << >> THEN << >>
    ELSE ExpandPath(cfg, group \o << "." >> \o Head(names), depth)
         \o ExpandNames(cfg, group, Tail(names), depth)

MaxDepth(cfg) == Cardinality(Slots(cfg)) + 1

\* All commands of the bundle at path are literal.
AllLiteral(cfg, path) ==
    LET bundle == get_bundle(cfg, path)
    IN  /\ bundle.some
        /\ \A k \in DOMAIN to_vec(bundle.val.cmd) :
              parse_ref(to_vec(bundle.val.cmd)[k]).kind = "Command"

\* A command list in which every reference to a bundle that holds only
\* literal commands is replaced by those commands.
RECURSIVE InlineCmds(_, _)
InlineCmds(cfg, cmds) ==
    IF cmds = << >> THEN << >>
    ELSE LET r == parse_ref(Head(cmds))
             target == r.group \o << "." >> \o r.name
         IN  (IF r.kind = "BundleRef" /\ AllLiteral(cfg, target)
              THEN to_vec(get_bundle(cfg, target).val.cmd)
              ELSE << Head(cmds) >>)
             \o InlineCmds(cfg, Tail(cmds))

\* The configuration in which the bundle g.n has its references inlined.
Inlined(cfg, g, n) ==
    [cfg EXCEPT ![g][n].cmd = Multiple(InlineCmds(cfg, to_vec(cfg[g][n].cmd)))]

\* C3: when resolve_bundle succeeds its output is the in-order depth-first
\* expansion of the start bundle's command list; a bundle without references
\* returns its own commands as declared, and inlining the literal commands
\* of a referenced bundle into the start bundle leaves the output unchanged.
C3_FlatIsInOrderExpansion ==
    (pc = "idle" /\ mode = "flat" /\ retFlat.kind = "Ok") =>
        /\ retFlat.val = ExpandPath(config, bundle_path, MaxDepth(config))
        /\ AllLiteral(config, bundle_path)
             => retFlat.val = to_vec(get_bundle(config, bundle_path).val.cmd)
        /\ \A g \in DOMAIN config : \A n \in DOMAIN config[g] :
             bundle_path = g \o << "." >> \o n
               => retFlat.val = ExpandPath(Inlined(config, g, n), bundle_path,
                                           MaxDepth(config))

\* resolve_bundle succeeded on a start bundle that has a literal command
\* before a reference and whose inlined form differs from it.
C3_Witness ==
    /\ pc = "idle" /\ mode = "flat" /\ retFlat.kind = "Ok"
    /\ Len(retFlat.val) >= 3
    /\ \E g \in DOMAIN config : \E n \in DOMAIN config[g] :
         /\ bundle_path = g \o << "." >> \o n
         /\ Inlined(config, g, n) # config
         /\ parse_ref(to_vec(config[g][n].cmd)[1]).kind = "Command"
         /\ Len(to_vec(config[g][n].cmd)) >= 2
         /\ parse_ref(to_vec(config[g][n].cmd)[2]).kind = "BundleRef"

\* ---------------------------------------------------------------------- C4
hA == << "h", ".", "a" >>

\* C4: in both modes the wildcard on an existing group takes the entry names
\* in lexicographic order whatever order the map hands them out in, and
\* expands them one after another from the smallest, each call made for
\* "<group>.<name>"; a group without entries expands to nothing and the loop
\* moves on.  On the group { b, ab, a.b, a } the order is a, a.b, ab, b.
C4_WildcardLexicographic ==
    [][ /\ (AtCommand /\ Parsed.kind = "GroupAll" /\ Parsed.group \in DOMAIN config)
            => IF DOMAIN config[Parsed.group] = {}
               THEN /\ stack' = [stack EXCEPT ![Len(stack)].i = @ + 1]
                    /\ UNCHANGED << pc, visited, pane_cmds, err, retFlat, retPanes >>
               ELSE /\ Len(stack') = Len(stack)
                    /\ stack'[Len(stack)].in_group
                    /\ stack'[Len(stack)].group = Parsed.group
                    /\ stack'[Len(stack)].names = LexOrder(DOMAIN config[Parsed.group])
                    /\ stack'[Len(stack)].acc = Top.acc
                    /\ UNCHANGED << pc, visited, pane_cmds, err, retFlat, retPanes >>
        /\ (pc = "running" /\ ~err.some /\ stack # << >> /\ Top.in_group)
            => LET member == Top.group \o << "." >> \o Head(Top.names)
               IN  /\ member \in StackPaths => FailsWith(CircularRef(member))
                   /\ member \notin StackPaths
                        => /\ Len(stack') = Len(stack) + 1
                           /\ stack'[Len(stack')].path = member
                           /\ stack'[Len(stack)].names = Tail(Top.names)
                           /\ stack'[Len(stack)].in_group = (Tail(Top.names) # << >>)
                           /\ stack'[Len(stack)].i =
                                IF Tail(Top.names) = << >> THEN Top.i + 1 ELSE Top.i
        /\ (retFlat' # NoRet /\ bundle_path = hA /\ TableOf(config) = TWildOrder)
            => retFlat' = Ok(<< cX, << "x", "a" >>, << "x", "a", ".", "b" >>,
                                << "x", "a", "b" >>, << "x", "b" >>,
                                << "x", "a", ".", "b" >> >>)
        /\ (retPanes' # NoRet /\ bundle_path = hA /\ TableOf(config) = TWildOrder
              /\ \A g \in DOMAIN config : \A n \in DOMAIN config[g] :
                    ~config[g][n].pane.some)
            => retPanes' = Ok(<< << 0, << << "x", "a" >>, << "x", "a", ".", "b" >>,
                                         << "x", "a", "b" >>, << "x", "b" >>,
                                         << "x", "a", ".", "b" >>, cX >> >> >>)
        /\ (retFlat' # NoRet /\ bundle_path = << "g", ".", "a" >>
              /\ TableOf(config) = TEmptyGroup)
            => retFlat' = Ok(<< cX, cY >>)
      ]_vars

\* resolve_with_panes returned for the start bundle h.a = [x, @g.*, @g.a.b]
\* over the group g = { b, ab, a.b, a } with four panes entries in its result.
C4_Witness ==
    /\ pc = "idle" /\ mode = "panes" /\ retPanes.kind = "Ok"
    /\ bundle_path = hA
    /\ retFlat.kind = "Ok"
    /\ Len(retPanes.val) >= 2
    /\ TableOf(config) = TWildOrder

\* ---------------------------------------------------------------------- C5
\* Some entry of some group has this path.
NamesBundle(cfg, path) ==
    \E g \in DOMAIN cfg : \E n \in DOMAIN cfg[g] : path = g \o << "." >> \o n

\* C5: in both modes a call (for the start path or for a @g.n reference)
\* whose path names no bundle of the configuration fails with BundleNotFound
\* of exactly that path, a wildcard on a group that does not exist fails with
\* BundleNotFound("group '<g>'"), and a BundleNotFound on its way up is what
\* the public function returns.
C5_MissingBundle ==
    [][ /\ (Calling /\ ~NamesBundle(config, CallTarget))
            => FailsWith(BundleNotFound(CallTarget))
        /\ (AtCommand /\ Parsed.kind = "GroupAll" /\ Parsed.group \notin DOMAIN config)
            => FailsWith(BundleNotFound(<< "g", "r", "o", "u", "p", " ", "'" >>
                                        \o Parsed.group \o << "'" >>))
        /\ (err.some /\ err.val.kind = "BundleNotFound") => FailsWith(err.val)
        /\ (retPanes' # NoRet /\ bundle_path = << "g", ".", "b" >>
              /\ TableOf(config) = TFaults)
            => /\ retPanes' = Err(BundleNotFound(
                     << "g", "r", "o", "u", "p", " ", "'", "k", "'" >>))
               /\ retFlat' = retPanes'
      ]_vars

\* Both modes returned BundleNotFound("q.z") for a reference met inside the
\* start bundle.
C5_Witness ==
    /\ retPanes = Err(BundleNotFound(<< "q", ".", "z" >>))
    /\ retFlat = retPanes
    /\ NamesBundle(config, bundle_path)

\* ---------------------------------------------------------------------- C6
\* The first fault of the depth-first traversal from path with the calls for
\* the paths in active under way: None when there is none.
RECURSIVE FaultPath(_, _, _), FaultCmds(_, _, _), FaultNames(_, _, _, _)
FaultPath(cfg, path, active) ==
    IF path \in active THEN Some(CircularRef(path))
    ELSE IF ~get_bundle(cfg, path).some THEN Some(BundleNotFound(path))
    ELSE FaultCmds(cfg, to_vec(get_bundle(cfg, path).val.cmd), active \cup { path })

FaultCmds(cfg, cmds, active) ==
    IF cmds = << >> THEN None
    ELSE LET r == parse_ref(Head(cmds))
             here == CASE r.kind = "Command" -> None
                       [] r.kind = "BundleRef" ->
                            FaultPath(cfg, r.group \o << "." >> \o r.name, active)
                       [] r.kind = "GroupAll" ->
                            IF r.group \in DOMAIN cfg
                            THEN FaultNames(cfg, r.group,
                                            LexOrder(DOMAIN cfg[r.group]), active)
                            ELSE Some(BundleNotFound(<< "g", "r", "o", "u", "p", " ", "'" >>
                                                     \o r.group \o << "'" >>))
         IN  IF here.some THEN here ELSE FaultCmds(cfg, Tail(cmds), active)

FaultNames(cfg, group, names, active) ==
    IF names = << >> THEN None
    ELSE LET here == FaultPath(cfg, group \o << "." >> \o Head(names), active)
         IN  IF here.some THEN here
             ELSE FaultNames(cfg, group, Tail(names), active)

\* The public function whose return is the last step taken has returned r.
Returned(r) ==
    /\ pc = "idle"
    /\ \/ mode = "flat" /\ retFlat = r
       \/ mode = "panes" /\ retPanes = r

\* The public function whose return is the last step taken returned a result.
ReturnedOk ==
    /\ pc = "idle"
    /\ \/ mode = "flat" /\ retFlat.kind = "Ok"
       \/ mode = "panes" /\ retPanes.kind = "Ok"

\* C6: in both modes the call returns the first fault of the traversal in
\* depth-first, command-list order (wildcard members in lexicographic
\* order) and nothing but it, it returns a result only when there is no
\* fault at all, and from the moment an error is raised no call is entered,
\* no command collected and no pane entry touched: calls only return.
C6_FailFast ==
    /\ [] ( (pc = "idle" /\ mode # "none") =>
              LET fault == FaultPath(config, bundle_path, {})
              IN  IF fault.some
                  THEN Returned(Err(fault.val))
                  ELSE ReturnedOk )
    /\ [][ err.some =>
             /\ FailsWith(err.val)
             /\ visited' = visited
             /\ pane_cmds' = pane_cmds
             /\ stack' = SubSeq(stack, 1, Len(stack) - 1) ]_vars

\* resolve_with_panes returned the first of several faults, BundleNotFound
\* for "h.", after it had already filled a pane entry from an earlier sibling
\* and before it reached the missing group of the next reference.
C6_Witness ==
    /\ Returned(Err(BundleNotFound(<< "h", "." >>)))
    /\ mode = "panes"
    /\ pane_cmds # << >>
    /\ bundle_path = << "g", ".", "c" >>
    /\ TableOf(config) = TFaults

\* ---------------------------------------------------------------------- C8
\* The pane field of the bundle whose call is the k-th on the stack.
PaneField(k) == get_bundle(config, stack[k].path).val.pane

\* The pane of the nearest call at or below position k on the stack whose
\* bundle sets a pane, 0 when none of them does.
NearestPane(k) ==
    LET setters == { j \in 1 .. k : PaneField(j).some }
    IN  IF setters = {} THEN 0
        ELSE PaneField(CHOOSE j \in setters : \A i \in setters : i <= j).val

\* The literal commands of a command list, in order.
RECURSIVE Literals(_)
Literals(cmds) ==
    IF cmds = << >> THEN << >>
    ELSE (IF parse_ref(Head(cmds)).kind = "Command" THEN << Head(cmds) >> ELSE << >>)
         \o Literals(Tail(cmds))

IsSuffix(s, t) == Len(s) <= Len(t) /\ SubSeq(t, Len(t) - Len(s) + 1, Len(t)) = s
IsPrefix(s, t) == Len(s) <= Len(t) /\ SubSeq(t, 1, Len(s)) = s

TRefThenLiteral == sG :> ( nA :> Multiple(<< RefTo(sG, nB) >>) @@ nB :> Multiple(<< << "x", "b" >> >>) )

\* C8: in resolve_with_panes the target pane of every active call is the pane
\* field of the nearest bundle on its chain of referrers (itself included)
\* that sets one, and 0 when none does; when a call returns, the literal
\* commands standing directly in its bundle are at the end of the entry of
\* that pane and no entry of another pane has changed.  A bundle with pane p
\* referenced from a pane-less start bundle yields (p, ...).
C8_EffectivePane ==
    /\ [] ( mode = "panes" =>
              \A k \in DOMAIN stack : stack[k].target_pane = NearestPane(k) )
    /\ [][ /\ (AtEnd /\ mode = "panes")
               => /\ Top.acc = Literals(Top.cmds)
                  /\ Top.acc # << >>
                       => \E k \in DOMAIN pane_cmds' :
                            /\ pane_cmds'[k][1] = Top.target_pane
                            /\ IsSuffix(Top.acc, pane_cmds'[k][2])
                  /\ \A j \in DOMAIN pane_cmds :
                       pane_cmds[j][1] # Top.target_pane
                         => j \in DOMAIN pane_cmds' /\ pane_cmds'[j] = pane_cmds[j]
           /\ (retPanes' # NoRet /\ bundle_path = << "g", ".", "a" >>
                 /\ TableOf(config) = TRefThenLiteral
                 /\ ~config[sG][nA].pane.some /\ config[sG][nB].pane.some)
               => retPanes' = Ok(<< << config[sG][nB].pane.val, << << "x", "b" >> >> >> >>)
         ]_vars

\* Three nested calls of resolve_with_panes_inner: the start bundle sets pane
\* 1, the bundle it references sets pane 0, and the innermost bundle, which
\* sets none, has collected a literal command for pane 0.
C8_Witness ==
    /\ mode = "panes" /\ pc = "running"
    /\ Len(stack) = 3
    /\ PaneField(1) = Some(1)
    /\ PaneField(2) = Some(0)
    /\ ~PaneField(3).some
    /\ Top.target_pane = 0
    /\ Top.acc # << >>

\* ---------------------------------------------------------------------- C9
\* Every bundle of group g has pane 1 and no other bundle sets a pane.
OnlyGroupGOnPane1 ==
    \A g \in DOMAIN config : \A n \in DOMAIN config[g] :
        config[g][n].pane = IF g = sG THEN Some(1) ELSE None

\* C9: in resolve_with_panes no pane index occurs twice in pane_cmds; an
\* entry never moves and never loses commands, a returning call whose pane
\* already has an entry appends its commands to that entry and one whose
\* pane has none appends a new entry at the end.  With the four bundles of
\* g on pane 1 and h.a = [x, @g.*, @g.a.b] on pane 0, the result is the one
\* entry of pane 1 with the commands in the order the bundles returned,
\* followed by the entry of pane 0.
C9_OneEntryPerPane ==
    /\ [] ( \A i, j \in DOMAIN pane_cmds :
              i # j => pane_cmds[i][1] # pane_cmds[j][1] )
    /\ [][ /\ mode' = "panes"
               => /\ Len(pane_cmds') >= Len(pane_cmds)
                  /\ \A k \in DOMAIN pane_cmds :
                       /\ pane_cmds'[k][1] = pane_cmds[k][1]
                       /\ IsPrefix(pane_cmds[k][2], pane_cmds'[k][2])
           /\ (AtEnd /\ mode = "panes" /\ Top.acc # << >>)
               => LET here == { k \in DOMAIN pane_cmds : pane_cmds[k][1] = Top.target_pane }
                  IN  IF here = {}
                      THEN pane_cmds' = pane_cmds \o << << Top.target_pane, Top.acc >> >>
                      ELSE /\ Len(pane_cmds') = Len(pane_cmds)
                           /\ \A k \in here :
                                pane_cmds'[k][2] = pane_cmds[k][2] \o Top.acc
           /\ (retPanes' # NoRet /\ bundle_path = hA /\ OnlyGroupGOnPane1
                 /\ TableOf(config) = TWildOrder)
               => retPanes' = Ok(<< << 1, << << "x", "a" >>, << "x", "a", ".", "b" >>,
                                            << "x", "a", "b" >>, << "x", "b" >>,
                                            << "x", "a", ".", "b" >> >> >>,
                                    << 0, << cX >> >> >>)
         ]_vars

\* resolve_with_panes returned two entries, the first of them filled by five
\* calls that all resolved to pane 1.
C9_Witness ==
    /\ pc = "idle" /\ mode = "panes" /\ retPanes.kind = "Ok"
    /\ bundle_path = hA
    /\ OnlyGroupGOnPane1
    /\ TableOf(config) = TWildOrder
    /\ Len(retPanes.val) = 2
    /\ Len(retPanes.val[1][2]) = 5

\* --------------------------------------------------------------------- C10
\* C10: in resolve_with_panes every entry of pane_cmds, and so of a returned
\* result, has at least one command; a returning call whose bundle holds no
\* literal command leaves pane_cmds as it is; and when the expansion of the
\* start bundle holds no command at all the result is the empty sequence.
C10_NoEmptyEntry ==
    /\ [] ( /\ \A k \in DOMAIN pane_cmds : pane_cmds[k][2] # << >>
            /\ retPanes.kind = "Ok"
                 => /\ \A k \in DOMAIN retPanes.val : retPanes.val[k][2] # << >>
                    /\ (pc = "idle" /\ mode = "panes"
                          /\ ExpandPath(config, bundle_path, MaxDepth(config)) = << >>)
                         => retPanes.val = << >> )
    /\ [][ (AtEnd /\ mode = "panes" /\ Literals(Top.cmds) = << >>)
             => pane_cmds' = pane_cmds ]_vars

\* resolve_with_panes returned the empty sequence for a start bundle that
\* has commands, all of them references.
C10_Witness ==
    /\ pc = "idle" /\ mode = "panes"
    /\ retPanes = Ok(<< >>)
    /\ to_vec(get_bundle(config, bundle_path).val.cmd) # << >>

\* ---------------------------------------------------------------------- C7
StartsWithSigil(s) == Len(s) >= 1 /\ s[1] = "@"
DotsAfterSigil(s) == { k \in 2 .. Len(s) : s[k] = "." }

\* C7: parse_ref classifies every string: without a leading '@', or with one
\* but no '.' after it, the result is Command(s) with s unchanged; otherwise
\* the text after '@' is cut at its first '.' into (group, rest), giving
\* GroupAll(group) when rest is "*" and BundleRef(group, rest) otherwise,
\* rest keeping every further '.'.
C7_ParseClassification ==
    parse_out # NoRet =>
        IF ~StartsWithSigil(parse_in) \/ DotsAfterSigil(parse_in) = {}
        THEN parse_out = Command(parse_in)
        ELSE \E k \in DotsAfterSigil(parse_in) :
               /\ \A j \in DotsAfterSigil(parse_in) : k <= j
               /\ LET group == SubSeq(parse_in, 2, k - 1)
                      rest == SubSeq(parse_in, k + 1, Len(parse_in))
                  IN  IF rest = << "*" >>
                      THEN parse_out = GroupAll(group)
                      ELSE parse_out = BundleRef(group, rest)

\* parse_ref returned a BundleRef whose name holds a '.' of the input.
C7_Witness ==
    /\ parse_out # NoRet
    /\ parse_out.kind = "BundleRef"
    /\ \E k \in DOMAIN parse_out.name : parse_out.name[k] = "."


\* --------------------------------------------------------------------- C11
\* The configuration with every pane field cleared.
Unpaned(cfg) == WithPanes(TableOf(cfg), [slot \in Slots(cfg) |-> None])

\* C11: once both public functions have returned for the same configuration
\* and start path, resolve_with_panes has failed exactly when resolve_bundle
\* has, with the same error (BundleNotFound or CircularRef, same text), and
\* that error is the first fault of the configuration with its pane fields
\* cleared: the pane fields have no part in it.
C11_SameFailure ==
    (pc = "idle" /\ retPanes # NoRet) =>
        /\ (retPanes.kind = "Err") = (retFlat.kind = "Err")
        /\ retPanes.kind = "Err"
             => /\ retPanes = retFlat
                /\ retPanes.err.kind \in { "BundleNotFound", "CircularRef" }
        /\ LET fault == FaultPath(Unpaned(config), bundle_path, {})
           IN  IF fault.some
               THEN retPanes = Err(fault.val)
               ELSE retPanes.kind = "Ok" /\ retFlat.kind = "Ok"

\* Both functions returned the same CircularRef although resolve_with_panes
\* had by then filled an entry for pane 1, as a pane field told it to.
C11_Witness ==
    /\ pc = "idle" /\ retPanes.kind = "Err"
    /\ retPanes.err.kind = "CircularRef"
    /\ retFlat = retPanes
    /\ pane_cmds # << >>
    /\ pane_cmds[1][1] = 1


\* --------------------------------------------------------------------- C12
\* A block of commands placed on a pane of a pane-grouped list: at the end of
\* the pane's entry when it has one, as a new last entry otherwise.
PlaceBlock(pcs, pane, block) ==
    IF block = << >> THEN pcs
    ELSE IF \E k \in DOMAIN pcs : pcs[k][1] = pane
    THEN [k \in DOMAIN pcs |->
            IF pcs[k][1] = pane THEN << pane, pcs[k][2] \o block >> ELSE pcs[k]]
    ELSE pcs \o << << pane, block >> >>

\* The pane-grouped list after the bundle at path, met with the inherited
\* pane dp, has been added to pcs: first what its references add, in order
\* (wildcard members in lexicographic order), then its own literals.
RECURSIVE PanesOfPath(_, _, _, _, _), PanesOfCmds(_, _, _, _, _),
          PanesOfNames(_, _, _, _, _, _)
PanesOfPath(cfg, path, dp, pcs, depth) ==
    LET bundle == get_bundle(cfg, path)
    IN  IF depth = 0 \/ ~bundle.some THEN pcs
        ELSE LET pane == IF bundle.val.pane.some THEN bundle.val.pane.val ELSE dp
                 cmds == to_vec(bundle.val.cmd)
             IN  PlaceBlock(PanesOfCmds(cfg, cmds, pane, pcs, depth - 1),
                            pane, Literals(cmds))

PanesOfCmds(cfg, cmds, pane, pcs, depth) ==
    IF cmds = << >> THEN pcs
    ELSE LET r == parse_ref(Head(cmds))
             here == CASE r.kind = "Command" -> pcs
                       [] r.kind = "BundleRef" ->
                            PanesOfPath(cfg, r.group \o << "." >> \o r.name,
                                        pane, pcs, depth)
                       [] r.kind = "GroupAll" ->
                            IF r.group \in DOMAIN cfg
                            THEN PanesOfNames(cfg, r.group,
                                              LexOrder(DOMAIN cfg[r.group]),
                                              pane, pcs, depth)
                            ELSE pcs
         IN  PanesOfCmds(cfg, Tail(cmds), pane, here, depth)

PanesOfNames(cfg, group, names, pane, pcs, depth) ==
    IF names = << >> THEN pcs
    ELSE PanesOfNames(cfg, group, Tail(names), pane,
                      PanesOfPath(cfg, group \o << "." >> \o Head(names),
                                  pane, pcs, depth),
                      depth)

\* What the two public functions return, as functions of the configuration
\* and the start path alone.
FlatResult(cfg, path) ==
    LET fault == FaultPath(cfg, path, {})
    IN  IF fault.some THEN Err(fault.val)
        ELSE Ok(ExpandPath(cfg, path, MaxDepth(cfg)))

PanesResult(cfg, path) ==
    LET fault == FaultPath(cfg, path, {})
    IN  IF fault.some THEN Err(fault.val)
        ELSE Ok(PanesOfPath(cfg, path, 0, << >>, MaxDepth(cfg)))

\* Some command of the start bundle is a wildcard on a group of two or more
\* entries, whose names the map may hand out in more than one order.
StartHasWideWildcard ==
    LET bundle == get_bundle(config, bundle_path)
    IN  /\ bundle.some
        /\ \E k \in DOMAIN to_vec(bundle.val.cmd) :
              LET r == parse_ref(to_vec(bundle.val.cmd)[k])
              IN  /\ r.kind = "GroupAll"
                  /\ r.group \in DOMAIN config
                  /\ Cardinality(DOMAIN config[r.group]) >= 2

\* C12: what resolve_bundle and resolve_with_panes return, result or error,
\* is a function of the configuration (groups, entries, command lists, pane
\* fields) and the start path alone: every run returns the same value
\* whatever order the maps hand their keys out in; and no step of a call,
\* successful or failed, changes the configuration or the start path.
C12_PureFunction ==
    /\ [] ( /\ (pc = "idle" /\ mode = "flat")
                 => retFlat = FlatResult(config, bundle_path)
            /\ (pc = "idle" /\ mode = "panes")
                 => retPanes = PanesResult(config, bundle_path) )
    /\ [][ config' = config /\ bundle_path' = bundle_path ]_vars

\* Both functions returned a result for a start bundle with a wildcard on a
\* group of several entries that sit on different panes.
C12_Witness ==
    /\ pc = "idle" /\ mode = "panes"
    /\ retFlat.kind = "Ok" /\ retPanes.kind = "Ok"
    /\ StartHasWideWildcard
    /\ Len(retPanes.val) >= 2
    /\ Len(retFlat.val) >= 3


\* --------------------------------------------------------------------- C13
\* C13: the active call stack never holds more calls than the configuration
\* has distinct bundle paths, cycles or not, and every call of resolve_bundle
\* and of resolve_with_panes returns: a started traversal leads to a result or
\* an error of the public function.
C13_Terminates ==
    /\ [] ( /\ Len(stack) <= Cardinality(PathsOf(config))
            /\ pc = "running" => stack # << >>
            /\ (pc = "idle" /\ mode = "flat") => retFlat # NoRet
            /\ (pc = "idle" /\ mode = "panes") => retPanes # NoRet )
    /\ (pc = "running") ~> (pc = "idle")

\* On a configuration of three or more bundles every bundle has a call on
\* the stack, and the innermost is about to call a path that is on it.
C13_Witness ==
    /\ Len(stack) = Cardinality(PathsOf(config))
    /\ Len(stack) >= 3
    /\ Calling
    /\ CallTarget \in StackPaths


\* --------------------------------------------------------------------- C14
\* The three locations in the order of the search, those left out whose
\* directory is not known.
SearchOrder(e) ==
    (IF e.xdg.some THEN << config_file_in(e.xdg.val) >> ELSE << >>)
    \o (IF e.home.some
        THEN << config_file_in(e.home.val \o << ".config" >>) >>
        ELSE << >>)
    \o (IF config_dir(e).some THEN << config_file_in(config_dir(e).val) >> ELSE << >>)

\* C14: default_config_path returns the first file that exists among
\* $XDG_CONFIG_HOME/panout/config.toml (when the variable is set),
\* ~/.config/panout/config.toml and panout/config.toml under the platform
\* default config directory; when none of them exists it returns
\* ~/.config/panout/config.toml; and it returns NoConfigDir only when the
\* home directory cannot be determined.
C14_FirstExisting ==
    retPath # NoRet =>
        LET order == SearchOrder(env)
            found == { k \in DOMAIN order : order[k] \in env.files }
        IN  /\ found # {}
                 => \E k \in found :
                      /\ \A j \in found : k <= j
                      /\ retPath = Ok(order[k])
            /\ (found = {} /\ env.home.some)
                 => retPath = Ok(config_file_in(env.home.val \o << ".config" >>))
            /\ retPath = Err(NoConfigDir) => ~env.home.some


\* --------------------------------------------------------------------- C15
\* The step enters a call: a new frame is on the stack after it.
Enters == Len(stack') = Len(stack) + 1

\* The step is the successful return of the innermost call.
ReturnsOk == AtEnd /\ (Len(stack') = Len(stack) - 1)

RECURSIVE Flatten(_)
Flatten(pcs) ==
    IF pcs = << >> THEN << >> ELSE Head(pcs)[2] \o Flatten(Tail(pcs))

\* How often the command c stands in the list cmds.
Count(c, cmds) == Cardinality({ k \in DOMAIN cmds : cmds[k] = c })

\* C17: when resolve_with_panes and resolve_bundle both succeed on the same
\* configuration and start path, the command lists of the entries of the
\* pane-grouped result, taken together, hold the commands of the flat result
\* with the same multiplicities, and no others.
C17_PanesPermuteFlat ==
    (pc = "idle" /\ mode = "panes" /\ retPanes.kind = "Ok") =>
        /\ retFlat.kind = "Ok"
        /\ LET all == Flatten(retPanes.val)
           IN  /\ Len(all) = Len(retFlat.val)
               /\ \A k \in DOMAIN all :
                     Count(all[k], all) = Count(all[k], retFlat.val)
               /\ \A k \in DOMAIN retFlat.val :
                     Count(retFlat.val[k], all) = Count(retFlat.val[k], retFlat.val)

\* Both succeeded, the pane-grouped result has several entries, its
\* commands stand in another order than in the flat result, and one command
\* occurs twice.
C17_Witness ==
    /\ pc = "idle" /\ mode = "panes" /\ retPanes.kind = "Ok"
    /\ Len(retPanes.val) >= 2
    /\ Flatten(retPanes.val) # retFlat.val
    /\ \E k \in DOMAIN retFlat.val : Count(retFlat.val[k], retFlat.val) >= 2


\* --------------------------------------------------------------------- C18
\* A = [xa, @g.b] and g.b = [xb]: a literal in front of a reference.
TLitThenRef ==
    sG :> ( nA :> Multiple(<< << "x", "a" >>, RefTo(sG, nB) >>)
         @@ nB :> Multiple(<< << "x", "b" >> >>) )

gDotA == << "g", ".", "a" >>

\* C18: in resolve_with_panes nothing reaches the output while a call is
\* still going through its command list; when the call returns, all its
\* references expanded, its literal commands are put in declared order and
\* in one piece at the end of its pane's list, behind whatever the bundles
\* it referenced have put there, or, when the pane has no list yet, as a new
\* entry behind the entries those bundles have created.  A = [xa, @g.b] and
\* g.b = [xb] without pane fields give [(0, [xb, xa])] while resolve_bundle
\* gives [xa, xb]; with g.b on pane 1 they give [(1, [xb]), (0, [xa])].
C18_LiteralsAfterReferences ==
    [][ /\ (mode = "panes" /\ pc = "running" /\ ~AtEnd)
            => pane_cmds' = pane_cmds
        /\ (mode = "panes" /\ AtEnd)
            => LET block == Literals(Top.cmds)
                   here == { k \in DOMAIN pane_cmds :
                               pane_cmds[k][1] = Top.target_pane }
               IN  IF block = << >> THEN pane_cmds' = pane_cmds
                   ELSE IF here = {}
                   THEN pane_cmds' = pane_cmds \o << << Top.target_pane, block >> >>
                   ELSE /\ DOMAIN pane_cmds' = DOMAIN pane_cmds
                        /\ \A k \in DOMAIN pane_cmds :
                             pane_cmds'[k] =
                               IF k \in here
                               THEN << Top.target_pane, pane_cmds[k][2] \o block >>
                               ELSE pane_cmds[k]
        /\ (retPanes' # NoRet /\ bundle_path = gDotA
              /\ TableOf(config) = TLitThenRef)
            => /\ retFlat' = Ok(<< << "x", "a" >>, << "x", "b" >> >>)
               /\ Unpaned(config) = config
                    => retPanes' = Ok(<< << 0, << << "x", "b" >>, << "x", "a" >> >> >> >>)
               /\ (config[sG][nB].pane = Some(1)
                     /\ config[sG][nA].pane \in { None, Some(0) })
                    => retPanes' = Ok(<< << 1, << << "x", "b" >> >> >>,
                                        << 0, << << "x", "a" >> >> >> >>)
      ]_vars

\* resolve_with_panes returned for A = [xa, @g.b] with both bundles on
\* pane 1: one entry, in which xb stands before xa.
C18_Witness ==
    /\ pc = "idle" /\ mode = "panes"
    /\ bundle_path = gDotA
    /\ TableOf(config) = TLitThenRef
    /\ retPanes.kind = "Ok"
    /\ Len(retPanes.val) = 1
    /\ retPanes.val[1][1] = 1
    /\ retPanes.val[1][2][1] = << "x", "b" >>


\* --------------------------------------------------------------------- C19
\* The group and the entry name of a bundle path.
GroupOf(path) == splitn2(path, ".")[1]
NameOf(path) == splitn2(path, ".")[2]

\* The positions in cmds of a wildcard on the group of the bundle at path.
OwnWildcards(cmds, path) ==
    { k \in DOMAIN cmds : parse_ref(cmds[k]) = GroupAll(GroupOf(path)) }

\* The names of a lexicographically ordered list that stand before name.
RECURSIVE Before(_, _)
Before(names, name) ==
    IF names = << >> \/ Head(names) = name THEN << >>
    ELSE << Head(names) >> \o Before(Tail(names), name)

\* The error of a call for the bundle at path whose first wildcard on its
\* own group stands at position j: the first fault met before the wildcard,
\* else the first fault of a member that comes before the bundle itself,
\* else CircularRef of the bundle.
OwnWildcardError(cfg, path, j) ==
    LET cmds == to_vec(get_bundle(cfg, path).val.cmd)
        sooner == FaultCmds(cfg, SubSeq(cmds, 1, j - 1), { path })
        earlier == FaultNames(cfg, GroupOf(path),
                              Before(LexOrder(DOMAIN cfg[GroupOf(path)]), NameOf(path)),
                              { path })
    IN  IF sooner.some THEN sooner.val
        ELSE IF earlier.some THEN earlier.val
        ELSE CircularRef(path)

\* C19: in both modes a call for a bundle g.n whose command list holds the
\* wildcard @g.* on its own group never returns successfully and never gets
\* past that wildcard without an error; the member g.n of the wildcard is
\* answered with CircularRef("g.n"); and a start bundle with such a wildcard
\* makes the public function fail, with CircularRef of the start path unless
\* a command before the wildcard or a member before g.n fails first.
C19_OwnGroupWildcardFails ==
    /\ [] ( /\ \A k \in DOMAIN stack :
                 \A j \in OwnWildcards(stack[k].cmds, stack[k].path) :
                     stack[k].i > j => err.some
            /\ (pc = "idle" /\ mode # "none"
                  /\ get_bundle(config, bundle_path).some)
                 => LET own == OwnWildcards(to_vec(get_bundle(config, bundle_path).val.cmd),
                                            bundle_path)
                    IN  own # {}
                          => \E j \in own :
                               /\ \A i \in own : j <= i
                               /\ Returned(Err(OwnWildcardError(config, bundle_path, j))) )
    /\ [][ /\ ReturnsOk => OwnWildcards(Top.cmds, Top.path) = {}
           /\ (pc = "running" /\ ~err.some /\ stack # << >> /\ Top.in_group
                 /\ Top.group \o << "." >> \o Head(Top.names) = Top.path)
               => FailsWith(CircularRef(Top.path))
         ]_vars

\* Both functions returned CircularRef of the start bundle, whose wildcard
\* on its own group had first expanded another member of the group.
C19_Witness ==
    /\ pc = "idle" /\ mode = "panes"
    /\ retPanes = Err(CircularRef(bundle_path))
    /\ retFlat = retPanes
    /\ get_bundle(config, bundle_path).some
    /\ OwnWildcards(to_vec(get_bundle(config, bundle_path).val.cmd), bundle_path) # {}
    /\ pane_cmds # << >>


\* --------------------------------------------------------------------- C20
\* What is to be sent for a pane-grouped result once create_panes has
\* returned indices: entry after entry, for an entry (i, cmds) with i below
\* the number of indices each command of cmds, in order, paired with the
\* pane at position i, and nothing for an entry with a larger i.
RECURSIVE ExpectedSends(_, _)
ExpectedSends(pcs, indices) ==
    IF pcs = << >> THEN << >>
    ELSE LET i == Head(pcs)[1]
             cmds == Head(pcs)[2]
         IN  (IF i < Len(indices)
              THEN [k \in 1 .. Len(cmds) |-> << indices[i + 1], cmds[k] >>]
              ELSE << >>)
             \o ExpectedSends(Tail(pcs), indices)

\* The entry the loop of run_bundle is at names a pane beyond the indices.
AtEntryWithoutPane ==
    AtEntry /\ pane_commands[entry_k][1] >= Len(pane_indices)

\* C20: run_bundle sends the pane-grouped result in output order: what has
\* been sent is at every moment the beginning of, and when run_bundle
\* returns Ok is exactly, the list that holds for each entry (i, cmds) with
\* i below the number of indices create_panes returned every command of
\* cmds once and in order, addressed to the pane at position i; an entry
\* with a larger i sends nothing and raises no error, the loop just moves
\* on; an error of run_bundle is that of the resolver or of a tmux command.
C20_DispatchInOrder ==
    /\ [] ( /\ retPanes.kind = "Err" => sent = << >>
            /\ retPanes.kind = "Ok"
                 => /\ IsPrefix(sent, ExpectedSends(pane_commands, pane_indices))
                    /\ retRun.kind = "Ok"
                         => sent = ExpectedSends(pane_commands, pane_indices)
            /\ retRun.kind = "Err"
                 => \/ retRun = retPanes
                    \/ ~cli.bundle.some
                    \/ retRun.err.kind \in { "NotInTmux", "TmuxError" } )
    /\ [][ /\ AtEntryWithoutPane
               => /\ sent' = sent
                  /\ retRun' = NoRet
                  /\ run_pc' = "loop"
                  /\ entry_k' = entry_k + 1
           /\ (AtEntry /\ sent' # sent)
               => LET i == pane_commands[entry_k][1]
                  IN  /\ i < Len(pane_indices)
                      /\ sent' = Append(sent, << pane_indices[i + 1],
                                              pane_commands[entry_k][2][cmd_k] >>)
         ]_vars

\* run_bundle returned Ok with the default of one pane, in a window whose
\* pane-base-index is 1: the first entry, for pane 1, was passed over and
\* the two commands of the second, for pane 0, went to the pane numbered 1.
C20_Witness ==
    /\ retRun = Ok(<< >>)
    /\ cli.num = None
    /\ pane_indices = << 1 >>
    /\ Len(pane_commands) = 2
    /\ pane_commands[1][1] = 1
    /\ Len(sent) = 2
    /\ sent[1][1] = 1

====
